---- MODULE Spec2Model ----
(***************************************************************************)
(* Model of app/src/main/cpp/main.cpp: the window-lifecycle-driven EGL     *)
(* renderer (ShaderProgram, TriangleMesh, EGLRenderer) and the poll/render *)
(* loop of NativeApp.                                                      *)
(*                                                                         *)
(* The EGL/GLES backend is modelled the way a call-recording mock would    *)
(* see it: every call the code makes is appended to `calls` together with  *)
(* its handle argument and with whether a rendering context was current on *)
(* the thread at that moment; `live` holds the objects a creation call has *)
(* returned and no release call has been issued on yet, `badRel` the       *)
(* objects a release call was issued on while they were not live.  The     *)
(* outcome of every backend call that can fail is an input of the model    *)
(* (Outcomes).  A GL call issued while no context is current has undefined *)
(* results; the model records the call (cur = FALSE) and its place in the  *)
(* accounting, and lets no other modelled state depend on its effect.      *)
(***************************************************************************)
EXTENDS Integers, Sequences, FiniteSets, TLC

\* Number of Renderers the host may cause to be constructed in one run.
MaxInits == 2
\* The value at which the drawFrame() counters stop counting.
DrawCap == 2

EGL_NO_DISPLAY == 0
EGL_NO_SURFACE == 0
EGL_NO_CONTEXT == 0
\* The handle eglGetDisplay(EGL_DEFAULT_DISPLAY) returns when it succeeds.
DefaultDisplay == 1
\* mApp->window == nullptr
NullWindow == 0
\* The window handles the host may deliver (H1, H2).
WindowHandles == {1, 2}

Ids == 1..MaxInits
Kinds == {"display", "surface", "context", "program", "vbo", "vao", "vshader", "fshader"}

\* GLES entry points (everything else recorded in `calls` is an EGL call).
GLCalls ==
    {"glCreateShader", "glShaderSource", "glCompileShader", "glGetShaderiv",
     "glGetShaderInfoLog", "glDeleteShader", "glCreateProgram", "glAttachShader",
     "glLinkProgram", "glGetProgramiv", "glGetProgramInfoLog", "glDeleteProgram",
     "glUseProgram", "glGenVertexArrays", "glGenBuffers", "glBindVertexArray",
     "glBindBuffer", "glBufferData", "glVertexAttribPointer",
     "glEnableVertexAttribArray", "glDrawArrays", "glDeleteBuffers",
     "glDeleteVertexArrays", "glClearColor", "glClear"}

VARIABLES
    mRenderer,        \* NativeApp::mRenderer: has = non-null, then the EGLRenderer's fields
    window,           \* mApp->window
    destroyRequested, \* mApp->destroyRequested
    pc,               \* position of NativeApp::run / android_main
    current,          \* the context current on the thread (EGL_NO_CONTEXT if none)
    live,             \* objects <<kind, Renderer id>> created and not yet released
    badRel,           \* objects released while not live (twice, or never created)
    calls,            \* backend calls made by the last step
    lastOp,           \* the last step taken
    gen,              \* number of Renderers constructed so far
    lost,             \* number of Renderers a "window lost" notification destroyed
    iterDraws,        \* drawFrame() calls made in the current loop iteration
    lateDraws         \* drawFrame() calls made since destroyRequested was set

vars == <<mRenderer, window, destroyRequested, pc, current, live, badRel, calls, lastOp, gen, lost,
         iterDraws, lateDraws>>

----------------------------------------------------------------------------
\* Backend outcomes: what each fallible call of one initialize() answers
\* (config: eglChooseConfig failed, returned zero configs, or returned one).
AllOk ==
    [getDisplay |-> TRUE, eglInit |-> TRUE, config |-> "one", surface |-> TRUE,
     context |-> TRUE, bind |-> TRUE, vs |-> TRUE, fs |-> TRUE, link |-> TRUE,
     vao |-> TRUE, vbo |-> TRUE]

\* One representative per distinguishable answer sequence: the answers of calls
\* behind the first failing step are never asked for and are left at "ok".
Outcomes ==
    {AllOk,
     [AllOk EXCEPT !.getDisplay = FALSE],
     [AllOk EXCEPT !.eglInit = FALSE],
     [AllOk EXCEPT !.config = "fail"],
     [AllOk EXCEPT !.config = "zero"],
     [AllOk EXCEPT !.surface = FALSE],
     [AllOk EXCEPT !.context = FALSE],
     [AllOk EXCEPT !.bind = FALSE],
     [AllOk EXCEPT !.vs = FALSE],
     [AllOk EXCEPT !.fs = FALSE],
     [AllOk EXCEPT !.vs = FALSE, !.fs = FALSE],
     [AllOk EXCEPT !.link = FALSE],
     [AllOk EXCEPT !.vao = FALSE],
     [AllOk EXCEPT !.vbo = FALSE],
     [AllOk EXCEPT !.vao = FALSE, !.vbo = FALSE]}

----------------------------------------------------------------------------
\* What is known of a Renderer's initialize(): whether it was called, the
\* answers the backend gave it, its result, the step it gave up at, and the
\* number of calls the handler had made before it started.
NoInit == [called |-> FALSE, ret |-> FALSE, step |-> "none", o |-> AllOk, from |-> 0]

\* A default-constructed EGLRenderer (member initialisers) with identity id.
NewRenderer(id) ==
    [has |-> TRUE, id |-> id, init |-> NoInit,
     mDisplay |-> EGL_NO_DISPLAY, mSurface |-> EGL_NO_SURFACE, mContext |-> EGL_NO_CONTEXT,
     mProgramId |-> 0, mVAO |-> 0, mVBO |-> 0]

\* An empty std::unique_ptr<EGLRenderer>.
NoRenderer == [NewRenderer(0) EXCEPT !.has = FALSE]

\* The part of the state the program's functions read and write.
World ==
    [rd |-> mRenderer, current |-> current, live |-> live, badRel |-> badRel,
     calls |-> <<>>]

\* Evaluate x once and continue with its value: one statement after another.
Bind(x, F(_)) == CHOOSE r \in {F(v) : v \in {x}} : TRUE

Call(w, f, a) ==
    Bind(w, LAMBDA v :
        [v EXCEPT !.calls = Append(@, [f |-> f, a |-> a, cur |-> v.current # EGL_NO_CONTEXT])])

Calls2(w, f, a, g, b) == Call(Call(w, f, a), g, b)

\* A creation call returned an object of kind k to the Renderer.
Acquire(w, k) ==
    Bind(w, LAMBDA v : [v EXCEPT !.live = @ \cup {<<k, v.rd.id>>}])

\* A release call was issued on the Renderer's object of kind k.
Release(w, k) ==
    Bind(w, LAMBDA v :
        IF <<k, v.rd.id>> \in v.live
        THEN [v EXCEPT !.live = @ \ {<<k, v.rd.id>>}]
        ELSE [v EXCEPT !.badRel = @ \cup {<<k, v.rd.id>>}])

\* eglTerminate: ends the display connection if one is initialised, and is
\* defined (a no-op) on a display that is not.
Terminate(w) ==
    Bind(w, LAMBDA v : [v EXCEPT !.live = @ \ {<<"display", v.rd.id>>}])

----------------------------------------------------------------------------
Init ==
    /\ mRenderer = NoRenderer
    /\ window = NullWindow
    /\ destroyRequested = FALSE
    /\ pc = "top"
    /\ current = EGL_NO_CONTEXT
    /\ live = {}
    /\ badRel = {}
    /\ calls = <<>>
    /\ lastOp = "none"
    /\ gen = 0
    /\ lost = 0
    /\ iterDraws = 0
    /\ lateDraws = 0

----------------------------------------------------------------------------
\* ShaderProgram

\* compileShader(type, source): the stage object, or 0 after deleting it when
\* it did not compile.  k is the stage ("vshader", "fshader"), ok the compiler's
\* answer.
ShaderProgram_compileShader(w, k, ok) ==
    Bind(w, LAMBDA v :
      Bind(Call(Calls2(Acquire(Call(v, "glCreateShader", v.rd.id), k),
                       "glShaderSource", v.rd.id, "glCompileShader", v.rd.id),
                "glGetShaderiv", v.rd.id), LAMBDA w2 :
        IF ~ok
        THEN [w |-> Release(Calls2(w2, "glGetShaderInfoLog", v.rd.id,
                                       "glDeleteShader", v.rd.id), k),
              shader |-> 0]
        ELSE [w |-> w2, shader |-> v.rd.id]))

\* ShaderProgram::initialize(), after both stages compiled: create, attach,
\* link, delete the stages, check the link status.
ShaderProgram_link(w, vertexShader, fragmentShader, o) ==
    Bind(w, LAMBDA v :
      Bind(Acquire([Call(v, "glCreateProgram", 0) EXCEPT !.rd.mProgramId = v.rd.id],
                   "program"), LAMBDA w1 :
        Bind(Call(Calls2(w1, "glAttachShader", vertexShader, "glAttachShader", fragmentShader),
                  "glLinkProgram", w1.rd.mProgramId), LAMBDA w2 :
          Bind(Release(Call(w2, "glDeleteShader", vertexShader), "vshader"), LAMBDA w3 :
            Bind(Release(Call(w3, "glDeleteShader", fragmentShader), "fshader"), LAMBDA w4 :
              Bind(Call(w4, "glGetProgramiv", w4.rd.mProgramId), LAMBDA w5 :
                IF ~o.link
                THEN Bind(Release(Calls2(w5, "glGetProgramInfoLog", w5.rd.mProgramId,
                                             "glDeleteProgram", w5.rd.mProgramId),
                                  "program"), LAMBDA w6 :
                       [w |-> [w6 EXCEPT !.rd.mProgramId = 0], ret |-> FALSE])
                ELSE [w |-> w5, ret |-> TRUE]))))))

\* ShaderProgram::initialize() that tests only the vertex stage before linking.
ShaderProgram_initialize_vertexOnly(w, o) ==
    Bind(ShaderProgram_compileShader(w, "vshader", o.vs), LAMBDA vx :
      Bind(ShaderProgram_compileShader(vx.w, "fshader", o.fs), LAMBDA fx :
        IF vx.shader = 0
        THEN [w |-> fx.w, ret |-> FALSE]
        ELSE ShaderProgram_link(fx.w, vx.shader, fx.shader, o)))

\* ShaderProgram::initialize(vertexSource, fragmentSource)
ShaderProgram_initialize(w, o) ==
    Bind(ShaderProgram_compileShader(w, "vshader", o.vs), LAMBDA vx :
      Bind(ShaderProgram_compileShader(vx.w, "fshader", o.fs), LAMBDA fx :
        IF vx.shader = 0 \/ fx.shader = 0
        THEN [w |-> fx.w, ret |-> FALSE]
        ELSE ShaderProgram_link(fx.w, vx.shader, fx.shader, o)))

\* ShaderProgram::~ShaderProgram()
ShaderProgram_destructor(w) ==
    Bind(w, LAMBDA v :
      IF v.rd.mProgramId # 0
      THEN Release(Call(v, "glDeleteProgram", v.rd.mProgramId), "program")
      ELSE v)

\* ShaderProgram::use()
ShaderProgram_use(w) == Bind(w, LAMBDA v : Call(v, "glUseProgram", v.rd.mProgramId))

----------------------------------------------------------------------------
\* TriangleMesh

\* Number of vertices of the triangle (glDrawArrays count).
VertexCount == 3

\* TriangleMesh::initialize(): o.vao and o.vbo say whether glGenVertexArrays
\* and glGenBuffers produced a name.
TriangleMesh_initialize(w, o) ==
    Bind(w, LAMBDA v :
      Bind([Call(v, "glGenVertexArrays", 0)
              EXCEPT !.rd.mVAO = IF o.vao THEN v.rd.id ELSE 0], LAMBDA w1 :
        Bind(IF w1.rd.mVAO # 0 THEN Acquire(w1, "vao") ELSE w1, LAMBDA w2 :
          Bind([Call(w2, "glGenBuffers", 0)
                  EXCEPT !.rd.mVBO = IF o.vbo THEN v.rd.id ELSE 0], LAMBDA w3 :
            Bind(IF w3.rd.mVBO # 0 THEN Acquire(w3, "vbo") ELSE w3, LAMBDA w4 :
              Bind(Calls2(w4, "glBindVertexArray", w4.rd.mVAO, "glBindBuffer", w4.rd.mVBO),
                   LAMBDA w5 :
                Bind(Calls2(w5, "glBufferData", w5.rd.mVBO, "glVertexAttribPointer", 0),
                     LAMBDA w6 :
                  Bind(Calls2(w6, "glEnableVertexAttribArray", 0, "glBindVertexArray", 0),
                       LAMBDA w7 :
                    [w |-> w7, ret |-> (w7.rd.mVAO # 0 /\ w7.rd.mVBO # 0)]))))))))

\* TriangleMesh::draw()
TriangleMesh_draw(w) ==
    Bind(w, LAMBDA v :
      Call(Calls2(v, "glBindVertexArray", v.rd.mVAO, "glDrawArrays", VertexCount),
           "glBindVertexArray", 0))

\* TriangleMesh::cleanup() that forgets the vertex array: it drops the name
\* without deleting the object.
TriangleMesh_cleanup_leakVAO(w) ==
    Bind(w, LAMBDA v :
      Bind(IF v.rd.mVBO # 0
           THEN [Release(Call(v, "glDeleteBuffers", v.rd.mVBO), "vbo") EXCEPT !.rd.mVBO = 0]
           ELSE v, LAMBDA w1 : [w1 EXCEPT !.rd.mVAO = 0]))

\* TriangleMesh::cleanup() (also ~TriangleMesh)
TriangleMesh_cleanup(w) ==
    Bind(w, LAMBDA v :
      Bind(IF v.rd.mVBO # 0
           THEN [Release(Call(v, "glDeleteBuffers", v.rd.mVBO), "vbo") EXCEPT !.rd.mVBO = 0]
           ELSE v, LAMBDA w1 :
        IF w1.rd.mVAO # 0
        THEN [Release(Call(w1, "glDeleteVertexArrays", w1.rd.mVAO), "vao") EXCEPT !.rd.mVAO = 0]
        ELSE w1))

----------------------------------------------------------------------------
\* EGLRenderer

\* The early "return false" of initialize() after the step named `step`.
Fail(w, step) == [w |-> w, ret |-> FALSE, step |-> step]

\* The config check without its "|| numConfigs == 0".
ChooseConfigOk_ignoreCount(o) == o.config # "fail"

\* eglChooseConfig(...) succeeded and numConfigs != 0
ChooseConfigOk(o) == o.config = "one"

\* The tail of initialize() that sets up the mesh before the shader program.
EGLRenderer_initializeResources_meshFirst(w, o) ==
    Bind(TriangleMesh_initialize(w, o), LAMBDA tm :
      IF ~tm.ret THEN Fail(tm.w, "mesh")
      ELSE Bind(ShaderProgram_initialize(tm.w, o), LAMBDA sp :
             IF ~sp.ret THEN Fail(sp.w, "shader")
             ELSE [w |-> sp.w, ret |-> TRUE, step |-> "none"]))

\* EGLRenderer::initialize(), the context is current: shader program, then mesh.
EGLRenderer_initializeResources(w, o) ==
    Bind(ShaderProgram_initialize(w, o), LAMBDA sp :
      IF ~sp.ret THEN Fail(sp.w, "shader")
      ELSE Bind(TriangleMesh_initialize(sp.w, o), LAMBDA tm :
             IF ~tm.ret THEN Fail(tm.w, "mesh")
             ELSE [w |-> tm.w, ret |-> TRUE, step |-> "none"]))

\* EGLRenderer::initialize(), the config is chosen: surface, context, bind.
EGLRenderer_initializeSurface(w, o, win) ==
    Bind(w, LAMBDA v :
      Bind([Call(v, "eglCreateWindowSurface", win)
              EXCEPT !.rd.mSurface = IF o.surface THEN v.rd.id ELSE EGL_NO_SURFACE],
           LAMBDA w1 :
        IF w1.rd.mSurface = EGL_NO_SURFACE THEN Fail(w1, "surface")
        ELSE
          Bind([Call(Acquire(w1, "surface"), "eglCreateContext", 0)
                  EXCEPT !.rd.mContext = IF o.context THEN v.rd.id ELSE EGL_NO_CONTEXT],
               LAMBDA w2 :
            IF w2.rd.mContext = EGL_NO_CONTEXT THEN Fail(w2, "context")
            ELSE
              Bind(Call(Acquire(w2, "context"), "eglMakeCurrent", w2.rd.mContext),
                   LAMBDA w3 :
                IF ~o.bind THEN Fail(w3, "bind")
                ELSE EGLRenderer_initializeResources(
                         [w3 EXCEPT !.current = w3.rd.mContext], o)))))

\* EGLRenderer::initialize(); win is mApp->window.
EGLRenderer_initialize(w, o, win) ==
    Bind([Call(w, "eglGetDisplay", 0)
            EXCEPT !.rd.mDisplay = IF o.getDisplay THEN DefaultDisplay ELSE EGL_NO_DISPLAY],
         LAMBDA w1 :
      IF w1.rd.mDisplay = EGL_NO_DISPLAY THEN Fail(w1, "display")
      ELSE
        Bind(Call(w1, "eglInitialize", w1.rd.mDisplay), LAMBDA w2 :
          IF ~o.eglInit THEN Fail(w2, "eglInit")
          ELSE
            Bind(Call(Acquire(w2, "display"), "eglChooseConfig", w2.rd.mDisplay), LAMBDA w3 :
              IF ~ChooseConfigOk(o) THEN Fail(w3, "config")
              ELSE EGLRenderer_initializeSurface(w3, o, win))))

\* EGLRenderer::isInitialized()
EGLRenderer_isInitialized(rd) == rd.mDisplay # EGL_NO_DISPLAY

\* drawFrame() that presents before it draws.
EGLRenderer_drawFrame_swapFirst(w) ==
    Bind(w, LAMBDA v :
      IF v.rd.mDisplay = EGL_NO_DISPLAY THEN v
      ELSE TriangleMesh_draw(ShaderProgram_use(
               Call(Calls2(v, "glClearColor", 0, "glClear", 0),
                    "eglSwapBuffers", v.rd.mSurface))))

\* EGLRenderer::drawFrame()
EGLRenderer_drawFrame(w) ==
    Bind(w, LAMBDA v :
      IF v.rd.mDisplay = EGL_NO_DISPLAY THEN v
      ELSE Call(TriangleMesh_draw(ShaderProgram_use(
                    Calls2(v, "glClearColor", 0, "glClear", 0))),
                "eglSwapBuffers", v.rd.mSurface))

\* The guarded part of cleanup() that terminates the display and keeps mDisplay.
EGLRenderer_cleanupEGL_keepDisplay(w) ==
    Bind([Call(w, "eglMakeCurrent", EGL_NO_CONTEXT) EXCEPT !.current = EGL_NO_CONTEXT],
         LAMBDA w2 :
      Bind(IF w2.rd.mContext # EGL_NO_CONTEXT
           THEN [Release(Call(w2, "eglDestroyContext", w2.rd.mContext), "context")
                   EXCEPT !.rd.mContext = EGL_NO_CONTEXT]
           ELSE w2, LAMBDA w3 :
        Bind(IF w3.rd.mSurface # EGL_NO_SURFACE
             THEN [Release(Call(w3, "eglDestroySurface", w3.rd.mSurface), "surface")
                     EXCEPT !.rd.mSurface = EGL_NO_SURFACE]
             ELSE w3, LAMBDA w4 :
          Terminate(Call(w4, "eglTerminate", w4.rd.mDisplay)))))

\* The guarded part of cleanup() without the unbinding eglMakeCurrent: the
\* context it destroys stays the thread's current one.
EGLRenderer_cleanupEGL_noUnbind(w) ==
    Bind(IF w.rd.mContext # EGL_NO_CONTEXT
         THEN [Release(Call(w, "eglDestroyContext", w.rd.mContext), "context")
                 EXCEPT !.rd.mContext = EGL_NO_CONTEXT]
         ELSE w, LAMBDA w3 :
      Bind(IF w3.rd.mSurface # EGL_NO_SURFACE
           THEN [Release(Call(w3, "eglDestroySurface", w3.rd.mSurface), "surface")
                   EXCEPT !.rd.mSurface = EGL_NO_SURFACE]
           ELSE w3, LAMBDA w4 :
        [Terminate(Call(w4, "eglTerminate", w4.rd.mDisplay))
           EXCEPT !.rd.mDisplay = EGL_NO_DISPLAY]))

\* The guarded part of cleanup() that destroys the surface before the context.
EGLRenderer_cleanupEGL_surfaceFirst(w) ==
    Bind([Call(w, "eglMakeCurrent", EGL_NO_CONTEXT) EXCEPT !.current = EGL_NO_CONTEXT],
         LAMBDA w2 :
      Bind(IF w2.rd.mSurface # EGL_NO_SURFACE
           THEN [Release(Call(w2, "eglDestroySurface", w2.rd.mSurface), "surface")
                   EXCEPT !.rd.mSurface = EGL_NO_SURFACE]
           ELSE w2, LAMBDA w3 :
        Bind(IF w3.rd.mContext # EGL_NO_CONTEXT
             THEN [Release(Call(w3, "eglDestroyContext", w3.rd.mContext), "context")
                     EXCEPT !.rd.mContext = EGL_NO_CONTEXT]
             ELSE w3, LAMBDA w4 :
          [Terminate(Call(w4, "eglTerminate", w4.rd.mDisplay))
             EXCEPT !.rd.mDisplay = EGL_NO_DISPLAY])))

\* EGLRenderer::cleanup(), the part guarded by mDisplay != EGL_NO_DISPLAY.
EGLRenderer_cleanupEGL(w) ==
    Bind([Call(w, "eglMakeCurrent", EGL_NO_CONTEXT) EXCEPT !.current = EGL_NO_CONTEXT],
         LAMBDA w2 :
      Bind(IF w2.rd.mContext # EGL_NO_CONTEXT
           THEN [Release(Call(w2, "eglDestroyContext", w2.rd.mContext), "context")
                   EXCEPT !.rd.mContext = EGL_NO_CONTEXT]
           ELSE w2, LAMBDA w3 :
        Bind(IF w3.rd.mSurface # EGL_NO_SURFACE
             THEN [Release(Call(w3, "eglDestroySurface", w3.rd.mSurface), "surface")
                     EXCEPT !.rd.mSurface = EGL_NO_SURFACE]
             ELSE w3, LAMBDA w4 :
          [Terminate(Call(w4, "eglTerminate", w4.rd.mDisplay))
             EXCEPT !.rd.mDisplay = EGL_NO_DISPLAY])))

\* EGLRenderer::cleanup()
EGLRenderer_cleanup(w) ==
    Bind(TriangleMesh_cleanup(w), LAMBDA w1 :
      IF w1.rd.mDisplay # EGL_NO_DISPLAY THEN EGLRenderer_cleanupEGL(w1) ELSE w1)

\* EGLRenderer::~EGLRenderer(): the body, then the members in reverse order of
\* declaration (mTriangle, then mShaderProgram).
EGLRenderer_destructor(w) ==
    ShaderProgram_destructor(TriangleMesh_cleanup(EGLRenderer_cleanup(w)))

\* std::unique_ptr<EGLRenderer>::reset() and the unique_ptr's own destructor:
\* destroys the Renderer it holds, if any.
Reset(w) ==
    Bind(w, LAMBDA v :
      IF v.rd.has THEN [EGLRenderer_destructor(v) EXCEPT !.rd = NoRenderer] ELSE v)

----------------------------------------------------------------------------
\* NativeApp

\* The "window available" handler that initialises the new Renderer while the
\* one held before still exists, and destroys the old one afterwards.
OnInitWindow_initFirst(w, win, o, id) ==
    IF win # NullWindow
    THEN Bind(EGLRenderer_initialize([w EXCEPT !.rd = NewRenderer(id)], o, win), LAMBDA r :
           Bind(Reset([r.w EXCEPT !.rd = w.rd]), LAMBDA w2 :
             [w2 EXCEPT !.rd = [r.w.rd EXCEPT !.init =
                                   [called |-> TRUE, ret |-> r.ret, step |-> r.step,
                                    o |-> o, from |-> 0]]]))
    ELSE w

\* case APP_CMD_INIT_WINDOW: id names the Renderer make_unique constructs.  The
\* new Renderer is constructed (no backend call), the assignment destroys the
\* one held before, then initialize() runs on the new one; its result is dropped.
OnInitWindow(w, win, o, id) ==
    IF win # NullWindow
    THEN Bind([Reset(w) EXCEPT !.rd = NewRenderer(id)], LAMBDA w1 :
           Bind(EGLRenderer_initialize(w1, o, win), LAMBDA r :
             [r.w EXCEPT !.rd.init = [called |-> TRUE, ret |-> r.ret, step |-> r.step,
                                      o |-> o, from |-> Len(w1.calls)]]))
    ELSE w

\* The "window lost" handler that cleans up and keeps the Renderer.
OnTermWindow_noReset(w) ==
    Bind(w, LAMBDA v : IF v.rd.has THEN EGLRenderer_cleanup(v) ELSE v)

\* case APP_CMD_TERM_WINDOW
OnTermWindow(w) ==
    Bind(w, LAMBDA v : IF v.rd.has THEN Reset(EGLRenderer_cleanup(v)) ELSE v)

\* onAppCmd whose switch sends every other notification to the "window lost" case.
NativeApp_onAppCmd_fallThrough(w, cmd, win, o, id) ==
    CASE cmd = "APP_CMD_INIT_WINDOW" -> OnInitWindow(w, win, o, id)
      [] OTHER -> OnTermWindow(w)

\* NativeApp::onAppCmd(cmd)
NativeApp_onAppCmd(w, cmd, win, o, id) ==
    CASE cmd = "APP_CMD_INIT_WINDOW" -> OnInitWindow(w, win, o, id)
      [] cmd = "APP_CMD_TERM_WINDOW" -> OnTermWindow(w)
      [] OTHER -> w

\* Store what a function of the program left behind.
Apply(x, op) ==
    \E w \in {x} :
    /\ mRenderer' = w.rd
    /\ current' = w.current
    /\ live' = w.live
    /\ badRel' = w.badRel
    /\ calls' = w.calls
    /\ lastOp' = op

\* One more drawFrame() counted.
Counted(n) == IF n < DrawCap THEN n + 1 ELSE n

\* The loop entered without looking at destroyRequested.
LoopTop_ignoreFlag ==
    /\ pc = "top"
    /\ pc' = "poll"
    /\ Apply(World, "top")
    /\ iterDraws' = 0
    /\ UNCHANGED <<window, destroyRequested, gen, lost, lateDraws>>

\* while (!mApp->destroyRequested): the loop is entered.
LoopTop ==
    /\ pc = "top"
    /\ ~destroyRequested
    /\ pc' = "poll"
    /\ Apply(World, "top")
    /\ iterDraws' = 0
    /\ UNCHANGED <<window, destroyRequested, gen, lost, lateDraws>>

\* The loop condition fails: run() returns, android_main returns and nativeApp
\* (with the Renderer it may still hold) is destroyed.
LoopExit ==
    /\ pc = "top"
    /\ destroyRequested
    /\ pc' = "done"
    /\ Apply(Reset(World), "exit")
    /\ UNCHANGED <<window, destroyRequested, gen, lost, iterDraws, lateDraws>>

\* ALooper_pollOnce returned an event and source->process dispatched
\* APP_CMD_INIT_WINDOW; the host has set mApp->window to win before the handler.
CmdInitWindow ==
    /\ pc = "poll"
    /\ \E win \in {NullWindow} \cup WindowHandles, o \in Outcomes :
          /\ win # NullWindow => gen < MaxInits
          /\ window' = win
          /\ gen' = IF win # NullWindow THEN gen + 1 ELSE gen
          /\ Apply(NativeApp_onAppCmd(World, "APP_CMD_INIT_WINDOW", win, o, gen + 1),
                   "init_window")
    /\ UNCHANGED <<pc, destroyRequested, lost, iterDraws, lateDraws>>

\* APP_CMD_TERM_WINDOW dispatched; the host clears mApp->window after the handler.
CmdTermWindow ==
    /\ pc = "poll"
    /\ window' = NullWindow
    /\ Apply(NativeApp_onAppCmd(World, "APP_CMD_TERM_WINDOW", window, AllOk, gen), "term_window")
    /\ lost' = IF mRenderer.has THEN lost + 1 ELSE lost
    /\ UNCHANGED <<pc, destroyRequested, gen, iterDraws, lateDraws>>

\* APP_CMD_DESTROY dispatched: the host sets destroyRequested; onAppCmd ignores it.
CmdDestroy ==
    /\ pc = "poll"
    /\ ~destroyRequested
    /\ destroyRequested' = TRUE
    /\ Apply(NativeApp_onAppCmd(World, "APP_CMD_DESTROY", window, AllOk, gen), "destroy_cmd")
    /\ UNCHANGED <<pc, window, gen, lost, iterDraws, lateDraws>>

\* Any other notification dispatched.
CmdOther ==
    /\ pc = "poll"
    /\ Apply(NativeApp_onAppCmd(World, "APP_CMD_OTHER", window, AllOk, gen), "other_cmd")
    /\ UNCHANGED <<pc, window, destroyRequested, gen, lost, iterDraws, lateDraws>>

\* ALooper_pollOnce(0, ...) < 0: nothing pending, the drain ends.
PollEmpty ==
    /\ pc = "poll"
    /\ pc' = "render"
    /\ Apply(World, "poll_empty")
    /\ UNCHANGED <<window, destroyRequested, gen, lost, iterDraws, lateDraws>>

\* The render step that draws whenever a Renderer is held, valid or not.
Render_noValidityCheck ==
    /\ pc = "render"
    /\ pc' = "top"
    /\ IF mRenderer.has
       THEN /\ Apply(EGLRenderer_drawFrame(World), "drawFrame")
            /\ iterDraws' = Counted(iterDraws)
            /\ lateDraws' = IF destroyRequested THEN Counted(lateDraws) ELSE lateDraws
       ELSE /\ Apply(World, "no_draw")
            /\ UNCHANGED <<iterDraws, lateDraws>>
    /\ UNCHANGED <<window, destroyRequested, gen, lost>>

\* if (mRenderer && mRenderer->isInitialized()) mRenderer->drawFrame();
Render ==
    /\ pc = "render"
    /\ pc' = "top"
    /\ IF mRenderer.has /\ EGLRenderer_isInitialized(mRenderer)
       THEN /\ Apply(EGLRenderer_drawFrame(World), "drawFrame")
            /\ iterDraws' = Counted(iterDraws)
            /\ lateDraws' = IF destroyRequested THEN Counted(lateDraws) ELSE lateDraws
       ELSE /\ Apply(World, "no_draw")
            /\ UNCHANGED <<iterDraws, lateDraws>>
    /\ UNCHANGED <<window, destroyRequested, gen, lost>>

Next ==
    \/ LoopTop
    \/ LoopExit
    \/ CmdInitWindow
    \/ CmdTermWindow
    \/ CmdDestroy
    \/ CmdOther
    \/ PollEmpty
    \/ Render

\* The thread runs on: the loop test, the render step and the exit are taken
\* when reached, and every drain of pending events ends (the host does not
\* deliver notifications forever).
Fairness ==
    /\ WF_vars(LoopTop)
    /\ WF_vars(LoopExit)
    /\ WF_vars(PollEmpty)
    /\ WF_vars(Render)

FairSpec == Init /\ [][Next]_vars /\ Fairness

Spec == Init /\ [][Next]_vars

----------------------------------------------------------------------------
\* Vocabulary of the properties.

AllValid(rd) ==
    rd.mDisplay # EGL_NO_DISPLAY /\ rd.mSurface # EGL_NO_SURFACE /\ rd.mContext # EGL_NO_CONTEXT

AllInvalid(rd) ==
    rd.mDisplay = EGL_NO_DISPLAY /\ rd.mSurface = EGL_NO_SURFACE /\ rd.mContext = EGL_NO_CONTEXT

\* The Renderer held has a context and that context is current on the thread.
ContextReady == mRenderer.mContext # EGL_NO_CONTEXT /\ current = mRenderer.mContext

\* initialize() was called on the Renderer held and returned false / true.
InitFailed == mRenderer.has /\ mRenderer.init.called /\ ~mRenderer.init.ret
InitSucceeded == mRenderer.has /\ mRenderer.init.called /\ mRenderer.init.ret

\* The last step was the handler of "window available" and it ran initialize().
JustInitialized == lastOp = "init_window" /\ window # NullWindow

\* The last step was the render step of a loop iteration.
RenderStep == lastOp \in {"drawFrame", "no_draw"}

Made(f) == \E i \in DOMAIN calls : calls[i].f = f

Count(f) == Cardinality({i \in DOMAIN calls : calls[i].f = f})

\* The calls initialize() itself made in the last step.
InitCalls == {calls[i].f : i \in (mRenderer.init.from + 1)..Len(calls)}

----------------------------------------------------------------------------
\* C1: at every observation point (between notifications and loop iterations)
\* the three handles mDisplay, mSurface, mContext of the Renderer held are all
\* valid or all invalid.
C1_NoTornHandles ==
    mRenderer.has => (AllValid(mRenderer) \/ AllInvalid(mRenderer))

\* C2: a drawFrame() issued while no valid rendering context exists (context
\* handle invalid, or context not current) makes no backend call at all.
C2_DrawFrameWithoutContextIsNoop ==
    (lastOp = "drawFrame" /\ ~ContextReady) => calls = <<>>

\* C3: after a "window available" whose initialize() failed, no loop iteration
\* issues a clear, a draw or a present while that Renderer is held.
C3_FailedInitDrawsNothing ==
    (InitFailed /\ RenderStep) =>
        ~(Made("glClear") \/ Made("glDrawArrays") \/ Made("eglSwapBuffers"))

\* C4: isInitialized() is true iff the Renderer is Ready: its initialize()
\* completed every step and no teardown happened since.
C4_IsInitializedIffReady ==
    mRenderer.has => (EGLRenderer_isInitialized(mRenderer) <=> InitSucceeded)

\* C5: when initialize() fails at a context-layer step, at its return every
\* sub-resource acquired in the call is torn down and all three handles are
\* the invalid sentinel.
C5_FailedInitTearsDown ==
    (JustInitialized /\ InitFailed
       /\ mRenderer.init.step \in {"display", "eglInit", "config", "surface", "context", "bind"})
    => /\ AllInvalid(mRenderer)
       /\ \A k \in {"display", "surface", "context"} : <<k, mRenderer.id>> \notin live

\* C6: no GL call of any kind (draw, clear, creation, release) is made at a
\* moment when no rendering context is current.
C6_NoGpuCallWithoutCurrentContext ==
    \A i \in DOMAIN calls : calls[i].f \in GLCalls => calls[i].cur

\* C7: cleanup() called twice in a row, on the Renderer or on the mesh, from
\* any state (never initialised, partially initialised, fully initialised),
\* leaves the state the first call left and the second call makes no backend
\* call; the "window lost" handler, which runs cleanup() and then the
\* destructor's cleanup(), issues each destroy/terminate/delete call at most once.
C7_CleanupIdempotent ==
    /\ \A rd \in {mRenderer, NewRenderer(gen + 1)} :
          /\ \E once \in {EGLRenderer_cleanup([World EXCEPT !.rd = rd])} :
                EGLRenderer_cleanup(once) = once
          /\ \E once \in {TriangleMesh_cleanup([World EXCEPT !.rd = rd])} :
                TriangleMesh_cleanup(once) = once
    /\ lastOp = "term_window" =>
          /\ badRel = {}
          /\ \A f \in {"eglDestroyContext", "eglDestroySurface", "eglTerminate", "eglMakeCurrent",
                       "glDeleteBuffers", "glDeleteVertexArrays", "glDeleteProgram"} :
                Count(f) <= 1

\* A fully initialised Renderer went through the "window lost" handler.
C7_Witness ==
    /\ lastOp = "term_window"
    /\ Made("eglTerminate") /\ Made("eglDestroyContext") /\ Made("glDeleteBuffers")

\* C8: after "window available" and a successful initialize() the controller
\* holds a new valid Renderer; after "window lost" it holds none; while it
\* holds none no step other than teardown makes a backend call and no
\* drawFrame() runs; the same holds in every later cycle.
C8_LifecycleCycle ==
    /\ (JustInitialized /\ mRenderer.init.ret) =>
          /\ mRenderer.has /\ mRenderer.id = gen
          /\ EGLRenderer_isInitialized(mRenderer) /\ AllValid(mRenderer) /\ ContextReady
    /\ lastOp = "term_window" => (~mRenderer.has /\ current = EGL_NO_CONTEXT)
    /\ lastOp = "drawFrame" => mRenderer.has
    /\ (~mRenderer.has /\ lastOp \notin {"term_window", "exit"}) => calls = <<>>

\* The second cycle: a Renderer was lost, and the next "window available"
\* (handle H2) produced a valid one.
C8_Witness ==
    /\ JustInitialized /\ InitSucceeded
    /\ window = 2 /\ gen = 2 /\ lost = 1

\* The kinds of object a Renderer owns beyond initialize().
OwnedKinds == {"display", "surface", "context", "program", "vbo", "vao"}

\* C9: every display connection, surface, context, program, vertex buffer and
\* vertex array a Renderer acquired has had exactly one release call by the
\* time the Renderer is destroyed: none of a destroyed Renderer is still live
\* and none is ever released while not live.
C9_ReleasedExactlyOnce ==
    /\ \A x \in live : x[1] \in OwnedKinds => (mRenderer.has /\ x[2] = mRenderer.id)
    /\ \A x \in badRel : x[1] \notin OwnedKinds

\* A fully initialised Renderer has been destroyed, with every release issued.
C9_Witness ==
    /\ ~mRenderer.has /\ gen >= 1 /\ lastOp \in {"term_window", "exit"}
    /\ Made("glDeleteProgram") /\ Made("glDeleteBuffers") /\ Made("glDeleteVertexArrays")
    /\ Made("eglDestroyContext") /\ Made("eglDestroySurface") /\ Made("eglTerminate")

\* C10: when the config negotiation fails or yields zero configs, initialize()
\* returns false having made no surface-creation, context-creation or bind
\* call, and mSurface and mContext stay the invalid sentinel.
C10_NoConfigNoSurface ==
    (JustInitialized /\ mRenderer.init.o.getDisplay /\ mRenderer.init.o.eglInit
       /\ mRenderer.init.o.config # "one")
    => /\ ~mRenderer.init.ret
       /\ InitCalls \cap {"eglCreateWindowSurface", "eglCreateContext", "eglMakeCurrent"} = {}
       /\ mRenderer.mSurface = EGL_NO_SURFACE /\ mRenderer.mContext = EGL_NO_CONTEXT
       /\ <<"surface", mRenderer.id>> \notin live /\ <<"context", mRenderer.id>> \notin live

\* initialize() has just run against a backend that offered zero configs.
C10_Witness ==
    /\ JustInitialized /\ InitFailed
    /\ mRenderer.init.o.config = "zero" /\ mRenderer.init.step = "config"
    /\ Made("eglChooseConfig")

\* The backend let initialize() get as far as the shader program.
ReachedShader ==
    /\ mRenderer.init.o.getDisplay /\ mRenderer.init.o.eglInit
    /\ mRenderer.init.o.config = "one" /\ mRenderer.init.o.surface
    /\ mRenderer.init.o.context /\ mRenderer.init.o.bind

\* C11: if either shader stage fails to compile, ShaderProgram::initialize
\* fails without creating a program object or issuing an attach or link call
\* and mProgramId stays 0; a link call is made only after both stages compiled.
C11_NoLinkAfterCompileFailure ==
    JustInitialized =>
      /\ (ReachedShader /\ (~mRenderer.init.o.vs \/ ~mRenderer.init.o.fs)) =>
            /\ ~mRenderer.init.ret /\ mRenderer.init.step = "shader"
            /\ InitCalls \cap {"glCreateProgram", "glAttachShader", "glLinkProgram"} = {}
            /\ mRenderer.mProgramId = 0
            /\ <<"program", mRenderer.id>> \notin live
      /\ "glLinkProgram" \in InitCalls =>
            (ReachedShader /\ mRenderer.init.o.vs /\ mRenderer.init.o.fs)

\* initialize() has just run with the vertex stage compiling and the fragment
\* stage failing.
C11_Witness ==
    /\ JustInitialized /\ InitFailed /\ ReachedShader
    /\ mRenderer.init.o.vs /\ ~mRenderer.init.o.fs
    /\ Count("glCompileShader") = 2 /\ Made("glGetShaderInfoLog")

\* Which handles of a Renderer are set.
Shape(rd) ==
    <<rd.mDisplay # EGL_NO_DISPLAY, rd.mSurface # EGL_NO_SURFACE, rd.mContext # EGL_NO_CONTEXT,
      rd.mProgramId # 0, rd.mVAO # 0, rd.mVBO # 0>>

\* A call sequence without its handle values: the entry points, in order, each
\* with whether a context was current.
Names(cs) == [i \in DOMAIN cs |-> <<cs[i].f, cs[i].cur>>]

\* The first initialize() of a run: on a new Renderer, nothing created before,
\* nothing current, the backend answering o.
FirstInitialize(o) ==
    EGLRenderer_initialize(
        [rd |-> NewRenderer(1), current |-> EGL_NO_CONTEXT, live |-> {}, badRel |-> {},
         calls |-> <<>>], o, 1)

\* C12: an initialize() on a fresh Renderer that follows an earlier
\* initialize()/cleanup() cycle behaves as the first initialize() of the run
\* does under the same backend answers: same result, same handles set, same
\* sequence of backend calls with the same context-currency, and every handle
\* it holds is its own (nothing of the earlier cycle is visible to it).
C12_RoundTrip ==
    JustInitialized =>
      \E p \in {FirstInitialize(mRenderer.init.o)} :
        /\ p.ret = mRenderer.init.ret
        /\ Shape(p.w.rd) = Shape(mRenderer)
        /\ (p.w.current # EGL_NO_CONTEXT) = (current # EGL_NO_CONTEXT)
        /\ Names(p.w.calls) = Names(SubSeq(calls, mRenderer.init.from + 1, Len(calls)))
        /\ current \in {EGL_NO_CONTEXT, mRenderer.mContext}
        /\ {mRenderer.mSurface, mRenderer.mContext, mRenderer.mProgramId,
            mRenderer.mVAO, mRenderer.mVBO} \subseteq {0, mRenderer.id}

\* The second initialize() of a run, after the first Renderer was initialised
\* and lost, has bound its own context.
C12_Witness ==
    /\ JustInitialized /\ gen = 2 /\ lost = 1 /\ mRenderer.init.from = 0
    /\ current = mRenderer.mContext /\ current = 2
    /\ Made("glCreateShader")

\* The notifications dispatched during a drain.
DispatchOps == {"init_window", "term_window", "destroy_cmd", "other_cmd"}

\* C13: in every loop iteration the notifications are dispatched during the
\* drain, before any rendering; no drawFrame() happens inside the drain; the
\* drain never blocks; after it drawFrame() is called exactly once if a
\* Renderer is held and reports itself valid, and not at all otherwise.
C13_DrainThenDrawOnce ==
    /\ iterDraws <= 1
    /\ pc \in {"poll", "render"} => iterDraws = 0
    /\ lastOp \in DispatchOps =>
          (pc = "poll" /\ ~Made("glClear") /\ ~Made("glDrawArrays") /\ ~Made("eglSwapBuffers"))
    /\ pc = "poll" => ENABLED PollEmpty
    /\ RenderStep =>
          /\ pc = "top"
          /\ lastOp = "drawFrame" <=> (mRenderer.has /\ EGLRenderer_isInitialized(mRenderer))
          /\ iterDraws = IF lastOp = "drawFrame" THEN 1 ELSE 0

\* An iteration has drawn its one frame of a Renderer that initialised.
C13_Witness ==
    /\ lastOp = "drawFrame" /\ pc = "top" /\ iterDraws = 1
    /\ InitSucceeded /\ ~destroyRequested

\* C14: once destroyRequested is set the loop terminates (every drain being
\* finite); the loop test that sees the flag starts no new iteration, the
\* run ends there for good, and at most one drawFrame() happens after the
\* flag was set.
C14_DestroyTerminates ==
    /\ destroyRequested ~> (pc = "done")
    /\ [](lateDraws <= 1)
    /\ [][(destroyRequested /\ pc = "top") => pc' = "done"]_vars
    /\ [][pc = "done" => pc' = "done"]_vars

\* The run has ended after one last frame drawn in the iteration that saw the
\* flag set.
C14_Witness ==
    pc = "done" /\ destroyRequested /\ lateDraws = 1

\* The calls of ShaderProgram::initialize and of TriangleMesh::initialize.
ShaderCalls ==
    {"glCreateShader", "glShaderSource", "glCompileShader", "glGetShaderiv",
     "glGetShaderInfoLog", "glDeleteShader", "glCreateProgram", "glAttachShader",
     "glLinkProgram", "glGetProgramiv", "glGetProgramInfoLog", "glDeleteProgram"}

MeshCalls ==
    {"glGenVertexArrays", "glGenBuffers", "glBindVertexArray", "glBindBuffer",
     "glBufferData", "glVertexAttribPointer", "glEnableVertexAttribArray"}

\* The steps of initialize() in the order the claim gives, each by its calls.
InitStages ==
    <<{"eglGetDisplay", "eglInitialize"}, {"eglChooseConfig"}, {"eglCreateWindowSurface"},
      {"eglCreateContext"}, {"eglMakeCurrent"}, ShaderCalls, MeshCalls>>

\* The positions in the log where the initialize() of the last handler called
\* one of the functions in fs.
InitAt(fs) == {i \in (mRenderer.init.from + 1)..Len(calls) : calls[i].f \in fs}

ContextSteps == {"display", "eglInit", "config", "surface", "context", "bind"}

\* C15: initialize() goes display, config, surface, context, bind, shader
\* program, mesh, each step's calls after all calls of the steps before it and
\* none skipped; when a context-layer step fails it returns false with no
\* shader or mesh call made; the mesh is set up only after the shader program
\* reported success; it returns true exactly when no step failed.
C15_InitializeOrder ==
    JustInitialized =>
      /\ \A k \in 1..6 :
            /\ InitAt(InitStages[k + 1]) # {} => InitAt(InitStages[k]) # {}
            /\ \A i \in InitAt(InitStages[k]), j \in InitAt(InitStages[k + 1]) : i < j
      /\ InitAt(InitStages[1]) # {}
      /\ mRenderer.init.step \in ContextSteps =>
            (~mRenderer.init.ret /\ InitAt(ShaderCalls \cup MeshCalls) = {})
      /\ InitAt(MeshCalls) # {} =>
            (mRenderer.init.o.vs /\ mRenderer.init.o.fs /\ mRenderer.init.o.link)
      /\ mRenderer.init.ret <=> (mRenderer.init.o = AllOk)

\* An initialize() that went through all seven steps and returned true.
C15_Witness ==
    /\ JustInitialized /\ InitSucceeded
    /\ \A k \in 1..7 : InitAt(InitStages[k]) # {}

\* C16: a drawFrame() that passes its guard issues exactly: clear colour set,
\* clear, program activation, the mesh's draw of 3 vertices between the bind
\* and unbind of its vertex array, and then one present, which is the last call
\* and the only present of the frame.
C16_FrameOrder ==
    lastOp = "drawFrame" =>
      /\ [i \in DOMAIN calls |-> calls[i].f] =
            <<"glClearColor", "glClear", "glUseProgram", "glBindVertexArray",
              "glDrawArrays", "glBindVertexArray", "eglSwapBuffers">>
      /\ calls[3].a = mRenderer.mProgramId
      /\ calls[4].a = mRenderer.mVAO
      /\ calls[5].a = VertexCount
      /\ calls[7].a = mRenderer.mSurface
      /\ Count("eglSwapBuffers") = 1 /\ Count("glClear") = 1
      /\ Count("glUseProgram") = 1 /\ Count("glDrawArrays") = 1

\* A frame drawn by a Renderer whose initialize() succeeded.
C16_Witness ==
    /\ lastOp = "drawFrame" /\ InitSucceeded /\ AllValid(mRenderer)
    /\ Len(calls) = 7 /\ calls[Len(calls)].f = "eglSwapBuffers"

\* The place of a call in the order cleanup() releases in; 0 for a call that
\* is no part of cleanup().
CleanupRank(c) ==
    CASE c.f = "glDeleteBuffers" -> 1
      [] c.f = "glDeleteVertexArrays" -> 2
      [] c.f = "eglMakeCurrent" /\ c.a = EGL_NO_CONTEXT -> 3
      [] c.f = "eglDestroyContext" -> 4
      [] c.f = "eglDestroySurface" -> 5
      [] c.f = "eglTerminate" -> 6
      [] OTHER -> 0

\* The calls of cs that belong to cleanup() come in the order of their ranks,
\* each at most once.
InCleanupOrder(cs) ==
    \A i, j \in DOMAIN cs :
       (i < j /\ CleanupRank(cs[i]) # 0 /\ CleanupRank(cs[j]) # 0) =>
           CleanupRank(cs[i]) < CleanupRank(cs[j])

\* The calls of the log up to position n.
Upto(n) == SubSeq(calls, 1, n)

\* The part of the last handler's log in which a Renderer was torn down.
TeardownLog ==
    IF JustInitialized THEN Upto(mRenderer.init.from) ELSE calls

\* C17: cleanup() releases the mesh's buffer, then its vertex array, then
\* unbinds the context, destroys the context, destroys the surface and
\* terminates the display, in that order; after it the three handles are the
\* invalid sentinel, the mesh handles are 0, nothing is current, and no
\* display, surface or context of the Renderer is live.  Checked for cleanup()
\* run from every state a Renderer is held in, and on the log of every
\* teardown the program performed.
C17_CleanupOrder ==
    /\ InCleanupOrder(TeardownLog)
    /\ mRenderer.has =>
          \E w \in {EGLRenderer_cleanup(World)} :
             /\ InCleanupOrder(w.calls)
             /\ \A i \in DOMAIN w.calls : CleanupRank(w.calls[i]) # 0
             /\ AllInvalid(w.rd) /\ w.rd.mVAO = 0 /\ w.rd.mVBO = 0
             /\ w.current = EGL_NO_CONTEXT
             /\ \A k \in {"display", "surface", "context", "vbo", "vao"} :
                   <<k, w.rd.id>> \notin w.live
             /\ AllValid(mRenderer) =>
                   (\E i \in DOMAIN w.calls : CleanupRank(w.calls[i]) = 4) /\
                   (\E i \in DOMAIN w.calls : CleanupRank(w.calls[i]) = 5) /\
                   (\E i \in DOMAIN w.calls : CleanupRank(w.calls[i]) = 6)

\* "Window lost" tore down a Renderer that held a mesh and all three handles.
C17_Witness ==
    /\ lastOp = "term_window" /\ Len(calls) >= 6
    /\ [i \in 1..6 |-> CleanupRank(calls[i])] = <<1, 2, 3, 4, 5, 6>>

\* A notification that onAppCmd has nothing to do for was just dispatched.
IgnoredDispatch ==
    \/ lastOp' = "term_window" /\ ~mRenderer.has
    \/ lastOp' = "init_window" /\ window' = NullWindow
    \/ lastOp' \in {"other_cmd", "destroy_cmd"}

\* C18: "window lost" with no Renderer held, "window available" with a null
\* window, and every notification other than these two leave the Renderer
\* reference, all handles, the current context and every backend object as
\* they were, and make no call.
C18_IgnoredNotifications ==
    [][IgnoredDispatch =>
          /\ mRenderer' = mRenderer
          /\ current' = current
          /\ live' = live
          /\ badRel' = badRel
          /\ calls' = <<>>]_vars

\* Another notification arrived while a working Renderer was held and left it.
C18_Witness ==
    /\ lastOp = "other_cmd" /\ calls = <<>>
    /\ InitSucceeded /\ AllValid(mRenderer) /\ ContextReady

\* The platform objects a Renderer owns through its three handles.
PlatformKinds == {"display", "surface", "context"}

\* The calls with which initialize() acquires a platform handle.
AcquireCalls ==
    {"eglGetDisplay", "eglInitialize", "eglCreateWindowSurface", "eglCreateContext"}

\* "Window available" (with a window) is being handled while a Renderer is held.
Reinitialize == lastOp' = "init_window" /\ window' # NullWindow /\ mRenderer.has

\* C19: every live display connection, surface and context belongs to the one
\* Renderer held, and the context current on the thread is that Renderer's;
\* when "window available" arrives while a Renderer is held, the handler
\* destroys that Renderer's context and surface and terminates its display
\* before the first acquiring call of the new Renderer's initialize(), and
\* makes no release call after it.
C19_SingleOwner ==
    /\ [](\A x \in live : x[1] \in PlatformKinds => (mRenderer.has /\ x[2] = mRenderer.id))
    /\ [](current # EGL_NO_CONTEXT => (mRenderer.has /\ current = mRenderer.mContext))
    /\ [][Reinitialize =>
            /\ mRenderer'.id # mRenderer.id
            /\ \A i \in DOMAIN calls' :
                  /\ CleanupRank(calls'[i]) # 0 => i <= mRenderer'.init.from
                  /\ calls'[i].f \in AcquireCalls => i > mRenderer'.init.from
            /\ mRenderer.mContext # EGL_NO_CONTEXT =>
                  \E i \in 1..mRenderer'.init.from :
                     calls'[i].f = "eglDestroyContext" /\ calls'[i].a = mRenderer.mContext
            /\ mRenderer.mSurface # EGL_NO_SURFACE =>
                  \E i \in 1..mRenderer'.init.from :
                     calls'[i].f = "eglDestroySurface" /\ calls'[i].a = mRenderer.mSurface
            /\ mRenderer.mDisplay # EGL_NO_DISPLAY =>
                  \E i \in 1..mRenderer'.init.from : calls'[i].f = "eglTerminate"
            /\ \A k \in PlatformKinds : <<k, mRenderer.id>> \notin live']_vars

\* A second "window available" with no "window lost" before it: the Renderer
\* held was torn down and the new one initialised.
C19_Witness ==
    /\ JustInitialized /\ InitSucceeded /\ gen = 2 /\ lost = 0
    /\ mRenderer.init.from > 0
    /\ \E i \in 1..mRenderer.init.from : calls[i].f = "eglDestroyContext"
    /\ \E i \in 1..mRenderer.init.from : calls[i].f = "eglTerminate"

\* C20: when ShaderProgram::initialize has returned, every stage object it
\* created has been deleted, whatever the compile and link outcomes, and after
\* a failed link the program object is deleted and mProgramId is 0.
C20_NoStageOutlivesInitialize ==
    (JustInitialized /\ InitAt({"glCreateShader"}) # {}) =>
      /\ <<"vshader", mRenderer.id>> \notin live
      /\ <<"fshader", mRenderer.id>> \notin live
      /\ Cardinality(InitAt({"glDeleteShader"})) = Cardinality(InitAt({"glCreateShader"}))
      /\ (mRenderer.init.o.vs /\ mRenderer.init.o.fs /\ ~mRenderer.init.o.link) =>
            (mRenderer.mProgramId = 0 /\ <<"program", mRenderer.id>> \notin live)

====
